---- MODULE Spec2Model ----
(***************************************************************************)
(* Document-processing pipeline of the document-intake service.            *)
(*                                                                         *)
(* State: the MongoDB collections (documents, pages, extractions,          *)
(* chatMessages), the upload directory, the pipeline runs                  *)
(* (processDocument) and their AI follow-ups (enhanceAnalysisWithAI) that  *)
(* are in flight on the event loop, the startup sweep, and the HTTP        *)
(* response produced by the step just taken.                               *)
(*                                                                         *)
(* Granularity: one action is one storage operation together with the      *)
(* synchronous continuation that runs when its promise settles.  Storage   *)
(* writes may throw; storage reads return.                                 *)
(*                                                                         *)
(*   docs          documents collection: id -> record with the fields      *)
(*                 userId, status and, once written, processingProgress    *)
(*   files         ids of the documents whose file is in the upload dir    *)
(*   nDocs         number of ObjectIds handed out to documents             *)
(*   pendingDelete DELETE requests between the unlink and deleteDocument   *)
(*   runs          the processDocument calls, in the order they started    *)
(*   pages, extractions, chatMessages   the collections, in insert order   *)
(*   sweep         the startup sweep: where it is, which documents were    *)
(*                 in "processing" at boot, which it picked up, and which  *)
(*                 error writes it has issued that are not yet applied     *)
(*   geminiConfigured   whether GEMINI_API_KEY is set                      *)
(*   resp          the response sent by the step just taken                *)
(***************************************************************************)
EXTENDS Integers, Sequences, FiniteSets, TLC

VARIABLES docs, files, nDocs, pendingDelete, runs, pages, extractions,
          chatMessages, sweep, geminiConfigured, resp

vars == <<docs, files, nDocs, pendingDelete, runs, pages, extractions,
          chatMessages, sweep, geminiConfigured, resp>>

(* ---------------------------- bounds ----------------------------------- *)
MaxDocs == 1
MaxRuns == 2
MaxChat == 2

(* --------------------------- constants --------------------------------- *)
MockUser == "mock-user-id-123"
OtherUser == "user-2"
Users == {MockUser, OtherUser}

\* A request id that is not an ObjectId (the literal 'undefined').
InvalidId == 0
DocIds == 1..MaxDocs
ReqIds == {InvalidId} \cup DocIds
Contents == {"", "question"}

KeywordLimit == 15
\* pdfData.text of an uploaded file, as one piece
ParsedText == <<"text of the file">>
NlpKeywords == <<"k1", "k2">>
AiKeywords == <<"k2", "k3">>
NlpSummary == "first sentences"
AiSummary == "ai summary"

StorageMethods ==
  {"getUser", "upsertUser", "getDocuments", "getDocument",
   "getDocumentWithExtractions", "createDocument", "updateDocument",
   "deleteDocument", "searchDocuments", "createPage", "getPages",
   "createExtraction", "getExtractions", "getChatMessages",
   "createChatMessage", "getDashboardStats", "getReportsData"}

NoResp == [status |-> 0, message |-> "none"]
Reply(code, msg) == [status |-> code, message |-> msg]

(* --------------------------- storage ----------------------------------- *)
NoDocs == [d \in {} |-> [userId |-> MockUser, status |-> "processing"]]

\* $set: the named fields are overwritten, every other field is kept.
SetFields(doc, updates) ==
  [k \in (DOMAIN doc) \cup (DOMAIN updates) |->
     IF k \in DOMAIN updates THEN updates[k] ELSE doc[k]]

\* variant: the update is an upsert
updateDocumentUpsert(ds, id, updates) ==
  [d \in (DOMAIN ds) \cup {id} |->
     IF d = id
       THEN (IF id \in DOMAIN ds THEN SetFields(ds[d], updates) ELSE updates)
       ELSE ds[d]]

\* findOneAndUpdate without upsert: no match, no effect.
updateDocument(ds, id, updates) ==
  IF id \in DOMAIN ds
    THEN [d \in DOMAIN ds |-> IF d = id THEN SetFields(ds[d], updates) ELSE ds[d]]
    ELSE ds

deleteDocument(ds, id) == [d \in (DOMAIN ds) \ {id} |-> ds[d]]

createDocument(ds, id, doc) ==
  [d \in (DOMAIN ds) \cup {id} |-> IF d = id THEN doc ELSE ds[d]]

getDocuments(userId) == {d \in DOMAIN docs : docs[d].userId = userId}

createPage(documentId, extractedText) ==
  Append(pages, [documentId |-> documentId, pageNumber |-> 1,
                 extractedText |-> extractedText])

createExtraction(documentId, summary, keywords) ==
  Append(extractions, [documentId |-> documentId, extractionType |-> "analysis",
                       summary |-> summary, keywords |-> keywords])

getPages(documentId) == SelectSeq(pages, LAMBDA p : p.documentId = documentId)

getExtractions(documentId) ==
  SelectSeq(extractions, LAMBDA e : e.documentId = documentId)

\* Array.prototype.join: the texts in order, the separator between them.
\* A text is a sequence of pieces.
RECURSIVE Join(_, _)
Join(texts, separator) ==
  IF texts = <<>> THEN <<>>
  ELSE IF Len(texts) = 1 THEN texts[1]
  ELSE texts[1] \o separator \o Join(Tail(texts), separator)

\* the document with its extractions and the text of its pages; null is
\* modelled as the empty record
getDocumentWithExtractions(id) ==
  IF id \notin DOMAIN docs THEN [found |-> FALSE]
  ELSE [found |-> TRUE,
        doc |-> docs[id],
        extractions |-> getExtractions(id),
        extractedText |->
          Join([i \in DOMAIN getPages(id) |-> getPages(id)[i].extractedText],
               <<"\n\n">>)]

Take(s, n) == SubSeq(s, 1, IF Len(s) < n THEN Len(s) ELSE n)

Range(s) == {s[i] : i \in DOMAIN s}

\* Array.from(new Set(s)): first occurrences, in order.
RECURSIVE Dedup(_)
Dedup(s) ==
  IF s = <<>> THEN <<>>
  ELSE LET front == Dedup(SubSeq(s, 1, Len(s) - 1))
           last == s[Len(s)]
       IN IF last \in Range(front) THEN front ELSE Append(front, last)

MergedKeywords(aiKeywords, stored) == Take(Dedup(aiKeywords \o stored), KeywordLimit)

(* ------------------------- document fields ----------------------------- *)
HasProgress(doc, p) ==
  "processingProgress" \in DOMAIN doc /\ doc.processingProgress = p

(* ------------------------- pipeline runs ------------------------------- *)
Origins == {"upload", "retry", "sweep"}

NewRun(d, origin) ==
  [doc |-> d, origin |-> origin, pc |-> "start", nlp |-> "none",
   catchOk |-> TRUE, ai |-> "none"]

ActivePcs == {"start", "parse", "w25", "page", "w40", "nlp", "w60",
              "extraction", "complete", "catch", "rejected"}

Active(r) == runs[r].pc \in ActivePcs
ActiveRuns(d) == {r \in DOMAIN runs : runs[r].doc = d /\ Active(r)}

SetRun(r, rec) == [runs EXCEPT ![r] = rec]
Goto(r, pc) == SetRun(r, [runs[r] EXCEPT !.pc = pc])
\* control enters the catch block of processDocument
Throw(r) == SetRun(r, [runs[r] EXCEPT !.pc = "catch", !.nlp = "none"])

(* ------------------ processDocument, step by step ---------------------- *)
\* line 357: status "processing", progress 10
RunMarkProcessing(r) ==
  /\ runs[r].pc = "start"
  /\ \E ok \in BOOLEAN :
       IF ok
         THEN /\ docs' = updateDocument(docs, runs[r].doc,
                            [status |-> "processing", processingProgress |-> 10])
              /\ runs' = Goto(r, "parse")
         ELSE /\ runs' = Throw(r)
              /\ UNCHANGED docs
  /\ resp' = NoResp
  /\ UNCHANGED <<files, nDocs, pendingDelete, pages, extractions,
                 chatMessages, sweep, geminiConfigured>>

\* variant: the promise is awaited without a timer
withTimeoutNoTimer(outcomes) == outcomes

\* lines 346-353: Promise.race of the promise against a timer, so that the
\* await settles as the promise does or, at the latest, by the timer
withTimeout(outcomes) == outcomes \cup {"timeout"}

\* lines 360-365: readFileSync, then pdfParse raced against the 30 s timer
RunReadAndParse(r) ==
  /\ runs[r].pc = "parse"
  /\ IF runs[r].doc \notin files
       THEN runs' = Throw(r)
       ELSE \E outcome \in withTimeout({"parsed", "rejected"}) :
              runs' = IF outcome = "parsed" THEN Goto(r, "w25") ELSE Throw(r)
  /\ resp' = NoResp
  /\ UNCHANGED <<docs, files, nDocs, pendingDelete, pages, extractions,
                 chatMessages, sweep, geminiConfigured>>

\* variant: the run goes from the 60 % write straight to the completed write
AfterProgressSkipsExtraction ==
  [w25 |-> "page", w40 |-> "nlp", w60 |-> "complete"]

ProgressAt == [w25 |-> 25, w40 |-> 40, w60 |-> 60]
AfterProgress == [w25 |-> "page", w40 |-> "nlp", w60 |-> "extraction"]

\* lines 371, 387, 399: the intermediate progress writes
RunProgress(r) ==
  /\ runs[r].pc \in DOMAIN ProgressAt
  /\ \E ok \in BOOLEAN :
       IF ok
         THEN /\ docs' = updateDocument(docs, runs[r].doc,
                            [processingProgress |-> ProgressAt[runs[r].pc]])
              /\ runs' = Goto(r, AfterProgress[runs[r].pc])
         ELSE /\ runs' = Throw(r)
              /\ UNCHANGED docs
  /\ resp' = NoResp
  /\ UNCHANGED <<files, nDocs, pendingDelete, pages, extractions,
                 chatMessages, sweep, geminiConfigured>>

\* lines 378-386: createPage is issued first, getTextStatistics second
RunSavePage(r) ==
  /\ runs[r].pc = "page"
  /\ \E outcome \in {"saved", "statsFailed", "insertFailed"} :
       /\ pages' = IF outcome = "insertFailed" THEN pages
                   ELSE createPage(runs[r].doc, ParsedText)
       /\ runs' = IF outcome = "saved" THEN Goto(r, "w40") ELSE Throw(r)
  /\ resp' = NoResp
  /\ UNCHANGED <<docs, files, nDocs, pendingDelete, extractions,
                 chatMessages, sweep, geminiConfigured>>

\* lines 390-397: a rejection or the 10 s timeout is replaced by [[], []]
RunNlp(r) ==
  /\ runs[r].pc = "nlp"
  /\ \E outcome \in withTimeout({"ok", "rejected"}) :
       runs' = SetRun(r, [runs[r] EXCEPT
                  !.pc = "w60",
                  !.nlp = IF outcome = "ok" THEN "found" ELSE "empty"])
  /\ resp' = NoResp
  /\ UNCHANGED <<docs, files, nDocs, pendingDelete, pages, extractions,
                 chatMessages, sweep, geminiConfigured>>

nlpKeywords(r) == IF runs[r].nlp = "found" THEN NlpKeywords ELSE <<>>

\* lines 402-420
RunSaveExtraction(r) ==
  /\ runs[r].pc = "extraction"
  /\ \E ok \in BOOLEAN :
       IF ok
         THEN /\ extractions' = createExtraction(runs[r].doc, NlpSummary,
                                    Take(nlpKeywords(r), KeywordLimit))
              /\ runs' = Goto(r, "complete")
         ELSE /\ runs' = Throw(r)
              /\ UNCHANGED extractions
  /\ resp' = NoResp
  /\ UNCHANGED <<docs, files, nDocs, pendingDelete, pages,
                 chatMessages, sweep, geminiConfigured>>

\* lines 423-435: the completed write, then the unawaited AI call
RunComplete(r) ==
  /\ runs[r].pc = "complete"
  /\ \E ok \in BOOLEAN :
       IF ok
         THEN /\ docs' = updateDocument(docs, runs[r].doc,
                            [status |-> "completed", processingProgress |-> 100])
              /\ runs' = SetRun(r, [runs[r] EXCEPT
                            !.pc = "resolved",
                            !.ai = IF geminiConfigured THEN "pending" ELSE "none"])
         ELSE /\ runs' = Throw(r)
              /\ UNCHANGED docs
  /\ resp' = NoResp
  /\ UNCHANGED <<files, nDocs, pendingDelete, pages, extractions,
                 chatMessages, sweep, geminiConfigured>>

\* variant: the catch block sets the status alone
CatchUpdatesStatusOnly == [status |-> "error"]

\* the error write of the catch block
CatchUpdates == [status |-> "error", processingProgress |-> -1]

\* lines 437-441; a run started by the sweep has no handler of its own
\* (the rejection ends in the sweep's catch, lines 336-338)
RunCatch(r) ==
  /\ runs[r].pc = "catch"
  /\ \E ok \in BOOLEAN :
       /\ docs' = IF ok THEN updateDocument(docs, runs[r].doc, CatchUpdates)
                  ELSE docs
       /\ runs' = SetRun(r, [runs[r] EXCEPT
                     !.pc = IF runs[r].origin = "sweep" THEN "failed" ELSE "rejected",
                     !.catchOk = ok])
  /\ resp' = NoResp
  /\ UNCHANGED <<files, nDocs, pendingDelete, pages, extractions,
                 chatMessages, sweep, geminiConfigured>>

\* lines 142-145 (upload) and 201-204 (retry)
CallerCatchUpdates(origin) ==
  IF origin = "upload" THEN [status |-> "error"]
  ELSE [status |-> "error", processingProgress |-> -1]

RunCallerCatch(r) ==
  /\ runs[r].pc = "rejected"
  /\ \E ok \in BOOLEAN :
       docs' = IF ok THEN updateDocument(docs, runs[r].doc,
                              CallerCatchUpdates(runs[r].origin))
               ELSE docs
  /\ runs' = Goto(r, "failed")
  /\ resp' = NoResp
  /\ UNCHANGED <<files, nDocs, pendingDelete, pages, extractions,
                 chatMessages, sweep, geminiConfigured>>

(* --------------------- enhanceAnalysisWithAI --------------------------- *)
\* lines 461-467, for the first stored analysis extraction of the document
EnhanceStored(documentId) ==
  LET idx == {i \in DOMAIN extractions :
                extractions[i].documentId = documentId
                /\ extractions[i].extractionType = "analysis"}
  IN IF idx = {} THEN extractions
     ELSE LET i == CHOOSE j \in idx : \A k \in idx : j <= k
          IN [extractions EXCEPT
                ![i].summary = AiSummary,
                ![i].keywords = MergedKeywords(AiKeywords, extractions[i].keywords)]

\* variant: a failed enhancement marks the document as failed
AiCatchMarksError(ds, documentId) == updateDocument(ds, documentId, CatchUpdates)

\* lines 469-472: the error is logged, the document is left as it is
AiCatch(ds, documentId) == ds

\* lines 451-468: both calls raced against the 45 s timer; on success the
\* continuation calls storage.getExtraction and storage.updateExtraction,
\* which throws a TypeError when the storage object has no such method.
\* lines 469-472: every error is logged and dropped.
AiSettle(r) ==
  /\ runs[r].ai = "pending"
  /\ \E outcome \in {"callsOk", "callsFailed", "timedOut"} :
       /\ runs' = SetRun(r, [runs[r] EXCEPT !.ai = outcome])
       /\ extractions' =
            IF outcome = "callsOk"
               /\ {"getExtraction", "updateExtraction"} \subseteq StorageMethods
              THEN EnhanceStored(runs[r].doc)
              ELSE extractions
       /\ docs' =
            IF outcome = "callsOk"
               /\ {"getExtraction", "updateExtraction"} \subseteq StorageMethods
              THEN docs
              ELSE AiCatch(docs, runs[r].doc)
  /\ resp' = NoResp
  /\ UNCHANGED <<files, nDocs, pendingDelete, pages,
                 chatMessages, sweep, geminiConfigured>>

Init ==
  /\ docs = NoDocs
  /\ files = {}
  /\ nDocs = 0
  /\ pendingDelete = {}
  /\ runs = <<>>
  /\ pages = <<>>
  /\ extractions = <<>>
  /\ chatMessages = <<>>
  /\ sweep = [pc |-> "scan", stuckAtBoot |-> {}, handled |-> {}, toMark |-> {}]
  /\ geminiConfigured \in BOOLEAN
  /\ resp = NoResp

(* --------------------------- HTTP handlers ----------------------------- *)
\* new ObjectId(id) throws on a string that is no ObjectId
ValidObjectId(id) == id # InvalidId

Exists(id) == id \in DOMAIN docs
Owner(u, id) == docs[id].userId = u

\* POST /api/documents/upload, lines 122-152
Upload(u) ==
  /\ \E file \in {"none", "pdf"} :
       IF file = "none"
         THEN /\ resp' = Reply(400, "No file uploaded")
              /\ UNCHANGED <<docs, files, nDocs, runs>>
         ELSE /\ nDocs < MaxDocs
              /\ Len(runs) < MaxRuns
              /\ \E ok \in BOOLEAN :
                   IF ok
                     THEN /\ nDocs' = nDocs + 1
                          /\ files' = files \cup {nDocs + 1}
                          /\ docs' = createDocument(docs, nDocs + 1,
                                        [userId |-> u, status |-> "processing"])
                          /\ runs' = Append(runs, NewRun(nDocs + 1, "upload"))
                          /\ resp' = Reply(200, "document")
                     ELSE /\ resp' = Reply(500, "Failed to upload document")
                          /\ UNCHANGED <<docs, files, nDocs, runs>>
  /\ UNCHANGED <<pendingDelete, pages, extractions, chatMessages, sweep,
                 geminiConfigured>>

\* GET /api/documents/:id, lines 95-119
GetDocumentStatus(u, id) ==
  IF id = InvalidId THEN Reply(400, "Invalid document ID")
  ELSE IF ~Exists(id) THEN Reply(404, "Document not found")
  ELSE IF ~Owner(u, id) THEN Reply(403, "Access denied")
  ELSE Reply(200, "document")

GetDocument(u, id) ==
  /\ resp' = GetDocumentStatus(u, id)
  /\ UNCHANGED <<docs, files, nDocs, pendingDelete, runs, pages, extractions,
                 chatMessages, sweep, geminiConfigured>>

\* variant: the lookup without the ownership check
LookupWithoutOwnerCheck(u, id, failure) ==
  IF ~ValidObjectId(id) THEN Reply(500, failure)
  ELSE IF ~Exists(id) THEN Reply(404, "Document not found")
  ELSE Reply(200, "ok")

\* the lookup and ownership check shared by lines 156-163, 182-189, 216-223
\* and 242-249
Lookup(u, id, failure) ==
  IF ~ValidObjectId(id) THEN Reply(500, failure)
  ELSE IF ~Exists(id) THEN Reply(404, "Document not found")
  ELSE IF ~Owner(u, id) THEN Reply(403, "Access denied")
  ELSE Reply(200, "ok")

\* DELETE /api/documents/:id, lines 154-170: up to the unlink
DeleteStatus(u, id) == Lookup(u, id, "Failed to delete document")

DeleteDocument(u, id) ==
  /\ IF DeleteStatus(u, id).status = 200
       THEN /\ files' = files \ {id}
            /\ pendingDelete' = pendingDelete \cup {id}
            /\ resp' = NoResp
       ELSE /\ resp' = DeleteStatus(u, id)
            /\ UNCHANGED <<files, pendingDelete>>
  /\ UNCHANGED <<docs, nDocs, runs, pages, extractions, chatMessages, sweep,
                 geminiConfigured>>

\* lines 171-176: deleteDocument and the response
DeleteFinish(id) ==
  /\ id \in pendingDelete
  /\ pendingDelete' = pendingDelete \ {id}
  /\ \E ok \in BOOLEAN :
       IF ok
         THEN /\ docs' = deleteDocument(docs, id)
              /\ resp' = Reply(200, "Document deleted")
         ELSE /\ resp' = Reply(500, "Failed to delete document")
              /\ UNCHANGED docs
  /\ UNCHANGED <<files, nDocs, runs, pages, extractions, chatMessages, sweep,
                 geminiConfigured>>

\* variant: a retry is refused while a run of the document is active
RetryStatusDeduplicated(u, id) ==
  LET found == Lookup(u, id, "Failed to retry document")
  IN IF found.status # 200 THEN found
     ELSE IF id \notin files THEN Reply(404, "Document file not found")
     ELSE IF ActiveRuns(id) # {} THEN Reply(409, "Document is already processing")
     ELSE Reply(200, "Document reprocessing started")

\* POST /api/documents/:id/retry, lines 180-211
RetryStatus(u, id) ==
  LET found == Lookup(u, id, "Failed to retry document")
  IN IF found.status # 200 THEN found
     ELSE IF id \notin files THEN Reply(404, "Document file not found")
     ELSE Reply(200, "Document reprocessing started")

\* variant: the retry resets the status alone
RetryUpdatesStatusOnly == [status |-> "processing"]

RetryUpdates == [status |-> "processing", processingProgress |-> 0]

RetryDocument(u, id) ==
  /\ IF RetryStatus(u, id).status = 200
       THEN /\ Len(runs) < MaxRuns
            /\ \E ok \in BOOLEAN :
                 IF ok
                   THEN /\ docs' = updateDocument(docs, id, RetryUpdates)
                        /\ runs' = Append(runs, NewRun(id, "retry"))
                        /\ resp' = RetryStatus(u, id)
                   ELSE /\ resp' = Reply(500, "Failed to retry document")
                        /\ UNCHANGED <<docs, runs>>
       ELSE /\ resp' = RetryStatus(u, id)
            /\ UNCHANGED <<docs, runs>>
  /\ UNCHANGED <<files, nDocs, pendingDelete, pages, extractions,
                 chatMessages, sweep, geminiConfigured>>

\* GET /api/chat/:documentId, lines 214-231
ChatGetStatus(u, id) ==
  LET found == Lookup(u, id, "Failed to fetch chat messages")
  IN IF found.status # 200 THEN found ELSE Reply(200, "messages")

ChatGet(u, id) ==
  /\ resp' = ChatGetStatus(u, id)
  /\ UNCHANGED <<docs, files, nDocs, pendingDelete, runs, pages, extractions,
                 chatMessages, sweep, geminiConfigured>>

\* POST /api/chat, lines 233-292
ChatPostStatus(u, id, content) ==
  IF content = "" THEN Reply(400, "Missing documentId or content")
  ELSE LET found == Lookup(u, id, "Failed to send message")
       IN IF found.status # 200 THEN found ELSE Reply(200, "assistant message")

createChatMessage(msgs, documentId, role, content) ==
  Append(msgs, [documentId |-> documentId, role |-> role, content |-> content])

ChatPost(u, id, content) ==
  /\ IF ChatPostStatus(u, id, content).status = 200
       THEN /\ Len(chatMessages) + 2 <= MaxChat
            /\ \E outcome \in {"answered", "aiFailed", "firstSaveFailed",
                               "secondSaveFailed"} :
                 LET withUser == createChatMessage(chatMessages, id, "user", content)
                     answer == IF outcome = "aiFailed" THEN "fallback" ELSE "answer"
                 IN /\ chatMessages' =
                         IF outcome = "firstSaveFailed" THEN chatMessages
                         ELSE IF outcome = "secondSaveFailed" THEN withUser
                         ELSE createChatMessage(withUser, id, "assistant", answer)
                    /\ resp' = IF outcome \in {"answered", "aiFailed"}
                                 THEN ChatPostStatus(u, id, content)
                                 ELSE Reply(500, "Failed to send message")
       ELSE /\ resp' = ChatPostStatus(u, id, content)
            /\ UNCHANGED chatMessages
  /\ UNCHANGED <<docs, files, nDocs, pendingDelete, runs, pages, extractions,
                 sweep, geminiConfigured>>

(* --------------------------- startup sweep ----------------------------- *)
RECURSIVE NewestFirst(_)
NewestFirst(S) ==
  IF S = {} THEN <<>>
  ELSE LET m == CHOOSE x \in S : \A y \in S : y <= x
       IN <<m>> \o NewestFirst(S \ {m})

SweepOwner == MockUser

\* lines 313-314
StuckDocuments == {d \in getDocuments(SweepOwner) : docs[d].status = "processing"}

StartRuns(ids) == [i \in 1..Len(ids) |-> NewRun(ids[i], "sweep")]

\* lines 313-328: the query and the synchronous map over its result
SweepScan ==
  /\ sweep.pc = "scan"
  /\ LET stuck == StuckDocuments
         restart == NewestFirst(stuck \cap files)
     IN /\ Len(runs) + Len(restart) <= MaxRuns
        /\ runs' = runs \o StartRuns(restart)
        /\ sweep' = [sweep EXCEPT !.pc = "done", !.handled = stuck,
                                  !.toMark = stuck \ files]
  /\ resp' = NoResp
  /\ UNCHANGED <<docs, files, nDocs, pendingDelete, pages, extractions,
                 chatMessages, geminiConfigured>>

\* line 326, when the write reaches the database
SweepMarkError(d) ==
  /\ d \in sweep.toMark
  /\ sweep' = [sweep EXCEPT !.toMark = @ \ {d}]
  /\ \E ok \in BOOLEAN :
       docs' = IF ok THEN updateDocument(docs, d, [status |-> "error"]) ELSE docs
  /\ resp' = NoResp
  /\ UNCHANGED <<files, nDocs, pendingDelete, runs, pages, extractions,
                 chatMessages, geminiConfigured>>

(* ----------------------- crash and restart ----------------------------- *)
\* The process dies and is started again: everything on the event loop is
\* gone, the database and the upload directory are kept, the sweep runs anew.
Killed(run) ==
  IF run.pc \in ActivePcs
    THEN [run EXCEPT !.pc = "crashed", !.nlp = "none", !.catchOk = TRUE]
    ELSE IF run.ai = "pending" THEN [run EXCEPT !.ai = "killed"] ELSE run

Restart ==
  /\ runs' = [r \in DOMAIN runs |-> Killed(runs[r])]
  /\ pendingDelete' = {}
  /\ sweep' = [pc |-> "scan",
               stuckAtBoot |-> {d \in DOMAIN docs : docs[d].status = "processing"},
               handled |-> {}, toMark |-> {}]
  /\ resp' = NoResp
  /\ UNCHANGED <<docs, files, nDocs, pages, extractions, chatMessages,
                 geminiConfigured>>

Next ==
  \/ \E r \in DOMAIN runs : RunMarkProcessing(r)
  \/ \E r \in DOMAIN runs : RunReadAndParse(r)
  \/ \E r \in DOMAIN runs : RunProgress(r)
  \/ \E r \in DOMAIN runs : RunSavePage(r)
  \/ \E r \in DOMAIN runs : RunNlp(r)
  \/ \E r \in DOMAIN runs : RunSaveExtraction(r)
  \/ \E r \in DOMAIN runs : RunComplete(r)
  \/ \E r \in DOMAIN runs : RunCatch(r)
  \/ \E r \in DOMAIN runs : RunCallerCatch(r)
  \/ \E r \in DOMAIN runs : AiSettle(r)
  \/ \E u \in Users : Upload(u)
  \/ \E u \in Users, id \in ReqIds : DeleteDocument(u, id)
  \/ \E id \in DocIds : DeleteFinish(id)
  \/ \E u \in Users, id \in ReqIds : RetryDocument(u, id)
  \/ SweepScan
  \/ \E d \in DocIds : SweepMarkError(d)
  \/ Restart

Spec == Init /\ [][Next]_vars

(* ------------------- the server that does not crash -------------------- *)
\* Every step but the restart.  A request that is refused changes nothing but
\* the response; such steps are left out.
Stored == <<docs, files, nDocs, pendingDelete, runs, pages, extractions,
            chatMessages, sweep>>

NextLive ==
  \/ \E r \in DOMAIN runs : RunMarkProcessing(r)
  \/ \E r \in DOMAIN runs : RunReadAndParse(r)
  \/ \E r \in DOMAIN runs : RunProgress(r)
  \/ \E r \in DOMAIN runs : RunSavePage(r)
  \/ \E r \in DOMAIN runs : RunNlp(r)
  \/ \E r \in DOMAIN runs : RunSaveExtraction(r)
  \/ \E r \in DOMAIN runs : RunComplete(r)
  \/ \E r \in DOMAIN runs : RunCatch(r)
  \/ \E r \in DOMAIN runs : RunCallerCatch(r)
  \/ \E r \in DOMAIN runs : AiSettle(r)
  \/ \E u \in Users : Upload(u) /\ Stored' # Stored
  \/ \E u \in Users, id \in ReqIds : DeleteDocument(u, id) /\ Stored' # Stored
  \/ \E id \in DocIds : DeleteFinish(id)
  \/ \E u \in Users, id \in ReqIds : RetryDocument(u, id) /\ Stored' # Stored
  \/ SweepScan
  \/ \E d \in DocIds : SweepMarkError(d)

\* The timer of withTimeout ends the wait for pdfParse (30 s) or for the
\* entity/keyword extraction (10 s).
TimerFires(r) ==
  /\ "timeout" \in withTimeout({})
  /\ \/ RunReadAndParse(r) /\ runs'[r].pc = "catch"
     \/ RunNlp(r) /\ runs'[r].nlp = "empty"

\* readFileSync of a file that is not there throws at once.
ReadThrows(r) == runs[r].doc \notin files /\ RunReadAndParse(r)

\* The steps of a run that are bound to happen: storage calls return (with a
\* result or an error), the text statistics are computed, timers fire.  The
\* parser and the entity/keyword extraction are not bound to settle.
RunStep(r) ==
  /\ r \in DOMAIN runs
  /\ \/ RunMarkProcessing(r)
     \/ ReadThrows(r)
     \/ TimerFires(r)
     \/ RunProgress(r)
     \/ RunSavePage(r)
     \/ RunSaveExtraction(r)
     \/ RunComplete(r)
     \/ RunCatch(r)
     \/ RunCallerCatch(r)

SpecLive ==
  /\ Init
  /\ [][NextLive]_vars
  /\ \A r \in 1..MaxRuns : WF_vars(RunStep(r))

\* The read-only document handler and the chat handlers: they write nothing
\* but chatMessages, which no other operation reads, and are checked next to
\* a single pipeline run.
ChatMaxRuns == 1

NextChat ==
  \/ Next /\ Len(runs') <= ChatMaxRuns
  \/ \E u \in Users, id \in ReqIds : GetDocument(u, id)
  \/ \E u \in Users, id \in ReqIds : ChatGet(u, id)
  \/ \E u \in Users, id \in ReqIds, content \in Contents : ChatPost(u, id, content)

SpecChat == Init /\ [][NextChat]_vars

(* ======================= properties of the claims ====================== *)
Ended(run) == run.pc \in {"resolved", "rejected", "failed"}
Failed(run) == run.pc \in {"catch", "rejected", "failed"}
EndsNow(r) == ~Ended(runs[r]) /\ Ended(runs'[r])
MarkedError(doc) == doc.status = "error" /\ HasProgress(doc, -1)

C2_AiFailureSwallowed ==
  [][\A r \in DOMAIN runs :
       (runs[r].ai = "pending" /\ runs'[r].ai \in {"callsFailed", "timedOut"})
       => /\ docs' = docs
          /\ extractions' = extractions
          /\ runs' = [runs EXCEPT ![r].ai = runs'[r].ai]
          /\ runs'[r].pc = "resolved"]_vars

C2_Witness ==
  \E r \in DOMAIN runs :
     /\ runs[r].ai \in {"callsFailed", "timedOut"}
     /\ runs[r].doc \in DOMAIN docs
     /\ docs[runs[r].doc].status = "completed"
     /\ HasProgress(docs[runs[r].doc], 100)
     /\ Len(getExtractions(runs[r].doc)) >= 1

Statuses == {"processing", "completed", "error"}

\* C3, as stated: every document record has a status among the three values
\* and a processingProgress that is present and is -1 or in 0..100.
C3_AsClaimed ==
  \A d \in DOMAIN docs :
     /\ docs[d].status \in Statuses
     /\ "processingProgress" \in DOMAIN docs[d]
     /\ docs[d].processingProgress \in {-1} \cup 0..100

\* C4: a run is at or past its completed write only when a page and an
\* analysis extraction of its document are stored, the AI enhancement of a run
\* exists only once the run has resolved, and every completed document has at
\* least one page and one analysis extraction.
C4_CompletedAfterSaves ==
  /\ \A r \in DOMAIN runs :
       /\ runs[r].pc \in {"complete", "resolved"}
          => /\ Len(getPages(runs[r].doc)) >= 1
             /\ Len(getExtractions(runs[r].doc)) >= 1
       /\ runs[r].ai # "none" => runs[r].pc = "resolved"
  /\ \A d \in DOMAIN docs :
       docs[d].status = "completed"
       => /\ Len(getPages(d)) >= 1
          /\ \E i \in DOMAIN extractions :
               /\ extractions[i].documentId = d
               /\ extractions[i].extractionType = "analysis"

\* the run has resolved while its AI enhancement is still in flight
C4_Witness ==
  \E r \in DOMAIN runs :
     /\ runs[r].pc = "resolved"
     /\ runs[r].ai = "pending"
     /\ runs[r].doc \in DOMAIN docs
     /\ docs[runs[r].doc].status = "completed"

\* C5, as stated: once the sweep has scanned, no document that was in
\* "processing" at startup is both unhandled and still in "processing".
C5_AsClaimed ==
  sweep.pc = "done"
  => \A d \in sweep.stuckAtBoot :
        \/ d \in sweep.handled
        \/ d \notin DOMAIN docs
        \/ docs[d].status # "processing"

\* C6: retry and sweep start runs without looking at the active ones: an
\* owner's retry of a document whose file exists is accepted and adds a run
\* whatever runs are active, and the sweep adds one run per stuck document
\* with a file, keeping every run that was there.
RetryAccepted(u, id) == RetryDocument(u, id) /\ Len(runs') = Len(runs) + 1

C6_NoDeduplication ==
  /\ [](\A id \in DOMAIN docs :
          (id \in files /\ Len(runs) < MaxRuns)
          => ENABLED RetryAccepted(docs[id].userId, id))
  /\ [][(sweep.pc = "scan" /\ sweep'.pc = "done")
        => /\ Len(runs') = Len(runs) + Cardinality(StuckDocuments \cap files)
           /\ SubSeq(runs', 1, Len(runs)) = runs]_vars

C6_Witness ==
  \E d \in DOMAIN docs :
     /\ Cardinality(ActiveRuns(d)) >= 2
     /\ \E r \in ActiveRuns(d) : runs[r].origin \in {"retry", "sweep"}

\* C7: a document that was created and is no longer stored has no backing
\* file, a successful DELETE removes a stored document, and no step brings a
\* removed record back.
Created == 1..nDocs

C7_DeletedStaysDeleted ==
  /\ [](\A d \in Created : d \notin DOMAIN docs => d \notin files)
  /\ [][/\ resp' = Reply(200, "Document deleted")
           => \E d \in DOMAIN docs : d \notin DOMAIN docs' /\ d \notin files'
        /\ \A d \in Created : d \notin DOMAIN docs => d \notin DOMAIN docs']_vars

\* a pipeline run of the deleted document is still in flight
C7_Witness ==
  \E r \in DOMAIN runs :
     /\ runs[r].doc \notin DOMAIN docs
     /\ runs[r].pc \in {"w25", "page", "w40", "catch"}
     /\ resp = Reply(200, "Document deleted")

DocumentScoped(u, id, content) ==
  {GetDocumentStatus(u, id), DeleteStatus(u, id), RetryStatus(u, id),
   ChatGetStatus(u, id), ChatPostStatus(u, id, content)}

\* C8, as stated: for each of the five document-scoped operations a request
\* on an existing document by a non-owner is answered 403 and a request on a
\* document that does not exist is answered 404.
C8_AsClaimed ==
  \A u \in Users, id \in ReqIds, content \in Contents :
     /\ (id \in DOMAIN docs /\ ~Owner(u, id))
        => \A a \in DocumentScoped(u, id, content) : a.status = 403
     /\ id \notin DOMAIN docs
        => \A a \in DocumentScoped(u, id, content) : a.status = 404

\* C8, amended: for a well-formed request (an id that is an ObjectId, and for
\* POST /api/chat a non-empty content) the answer is 403 "Access denied" on
\* an existing document of another user and 404 "Document not found" on a
\* missing one; and a step answered 400, 403 or 404 changes nothing.
C8_Rejections ==
  /\ [](\A u \in Users, id \in DocIds :
          /\ (id \in DOMAIN docs /\ ~Owner(u, id))
             => DocumentScoped(u, id, "question") = {Reply(403, "Access denied")}
          /\ id \notin DOMAIN docs
             => DocumentScoped(u, id, "question") = {Reply(404, "Document not found")})
  /\ [][resp'.status \in {400, 403, 404}
        => UNCHANGED <<docs, files, nDocs, pendingDelete, runs, pages,
                       extractions, chatMessages, sweep>>]_vars

C8_Witness ==
  /\ resp = Reply(403, "Access denied")
  /\ DOMAIN docs # {}
  /\ chatMessages # <<>>

\* C9: an accepted retry appends exactly one run, at its start, for a
\* document that then has status "processing" and progress 0; the owner's
\* retry is accepted whenever the backing file exists, whatever the status,
\* and is answered 404 "Document file not found" when it does not; a step
\* answered that way changes nothing.
C9_Retry ==
  /\ [](\A id \in DOMAIN docs :
          RetryStatus(docs[id].userId, id) =
            IF id \in files THEN Reply(200, "Document reprocessing started")
            ELSE Reply(404, "Document file not found"))
  /\ [][/\ resp' = Reply(200, "Document reprocessing started")
           => /\ runs' = Append(runs, NewRun(runs'[Len(runs')].doc, "retry"))
              /\ runs'[Len(runs')].doc \in DOMAIN docs \cap files
              /\ docs' = [docs EXCEPT ![runs'[Len(runs')].doc] =
                            SetFields(@, [status |-> "processing",
                                          processingProgress |-> 0])]
        /\ resp' = Reply(404, "Document file not found")
           => UNCHANGED <<docs, files, nDocs, pendingDelete, runs, pages,
                          extractions, chatMessages, sweep>>
        /\ Len(runs') > Len(runs) + 1 => sweep' # sweep]_vars

\* a retry was accepted while a run of the document was still active
C9_Witness ==
  /\ resp = Reply(200, "Document reprocessing started")
  /\ \E d \in DOMAIN docs : Cardinality(ActiveRuns(d)) >= 2

\* C10, as stated: once both AI calls of a run's enhancement have succeeded,
\* the stored analysis extraction of the document carries the AI summary and
\* the first 15 of the merged, duplicate-free keywords.
C10_AsClaimed ==
  \A r \in DOMAIN runs :
     runs[r].ai = "callsOk"
     => \E i \in DOMAIN extractions :
          /\ extractions[i].documentId = runs[r].doc
          /\ extractions[i].summary = AiSummary
          /\ extractions[i].keywords \in
               {MergedKeywords(AiKeywords, Take(NlpKeywords, KeywordLimit)),
                MergedKeywords(AiKeywords, <<>>)}

(* ------------------------------- C11 ----------------------------------- *)
HasRun(d) == \E r \in DOMAIN runs : runs[r].doc = d
Terminated(r) == r \in DOMAIN runs /\ ~Active(r)
Settled(d) == HasRun(d) /\ ActiveRuns(d) = {}

ErrorWritesLanded(d) ==
  \A r \in DOMAIN runs :
     runs[r].doc = d /\ runs[r].pc = "failed" => runs[r].catchOk

C12_AsClaimed ==
  \A d \in DOMAIN docs :
     /\ docs[d].status = "completed" => HasProgress(docs[d], 100)
     /\ docs[d].status = "error" => HasProgress(docs[d], -1)

(* ------------------------------- C13 ----------------------------------- *)
\* C13, as stated: in every reachable state, also after a retry or the
\* startup sweep has reprocessed a document, each existing document has at
\* most one page record and at most one "analysis" extraction, and the
\* extractedText of getDocumentWithExtractions is empty or the text of a
\* single parse of the file.
C13_AsClaimed ==
  \A d \in DOMAIN docs :
     /\ Len(getPages(d)) <= 1
     /\ Len(SelectSeq(getExtractions(d),
                      LAMBDA e : e.extractionType = "analysis")) <= 1
     /\ getDocumentWithExtractions(d).extractedText \in {<<>>, ParsedText}

====
